---- MODULE Spec2Model ----
(***************************************************************************)
(* Model of snakemake-software-deployment-plugin-conda:                    *)
(*   - pinfiles.get_match_specs_from_conda_pinfile (lock-file decoding)    *)
(*   - Env._package_records (memoized resolution, lock file before solver) *)
(*   - Env.pin (lock-file writing)                                         *)
(*   - Env.cache_assets (download to .<name>.part, then os.replace)        *)
(*   - Env.deploy (install, then the secondary installer)                  *)
(*                                                                         *)
(* Text (URLs, lock-file lines) is modelled as sequences of one-character  *)
(* strings, so that parsing and formatting are computed character by       *)
(* character, as the code does.  A file is a sequence of lines.            *)
(***************************************************************************)
EXTENDS Integers, Sequences, FiniteSets, TLC

(***************************************************************************)
(* Bounds of the model.                                                    *)
(***************************************************************************)
\* chunks of one artifact body (response.aiter_bytes yields this many chunks)
NumChunks == 2
\* operations started by one task
MaxCalls == 3
\* records of a resolved list, and lines of a lock file, given to the codec
MaxRecords == 3

(***************************************************************************)
(* Text helpers (Python str methods used by the code).                     *)
(***************************************************************************)
\* an optional value: Python's None (also: a path that does not exist), or
\* a value that is there
None == [some |-> FALSE, val |-> <<>>]
Some(v) == [some |-> TRUE, val |-> v]

RECURSIVE JoinWith(_, _)
\* sep.join(parts)
JoinWith(parts, sep) ==
    IF parts = <<>> THEN <<>>
    ELSE IF Len(parts) = 1 THEN parts[1]
    ELSE parts[1] \o <<sep>> \o JoinWith(Tail(parts), sep)

\* s.find(c), 1-based; 0 when c does not occur in s
Find(s, c) ==
    IF \E i \in 1..Len(s) : s[i] = c
    THEN CHOOSE i \in 1..Len(s) : s[i] = c /\ \A j \in 1..(i - 1) : s[j] # c
    ELSE 0

\* the first index of s holding one of the characters cs; Len(s)+1 when none
FindAny(s, cs) ==
    IF \E i \in 1..Len(s) : s[i] \in cs
    THEN CHOOSE i \in 1..Len(s) : s[i] \in cs /\ \A j \in 1..(i - 1) : s[j] \notin cs
    ELSE Len(s) + 1

RECURSIVE Split(_, _)
\* s.split(c): always at least one part
Split(s, c) ==
    LET i == Find(s, c)
    IN  IF i = 0 THEN <<s>>
        ELSE <<SubSeq(s, 1, i - 1)>> \o Split(SubSeq(s, i + 1, Len(s)), c)

\* s.rsplit(c, maxsplit): splits at the LAST maxsplit occurrences of c only
RSplit(s, c, maxsplit) ==
    LET all == Split(s, c)
        n   == Len(all)
    IN  IF n <= maxsplit + 1 THEN all
        ELSE <<JoinWith(SubSeq(all, 1, n - maxsplit), c)>>
             \o SubSeq(all, n - maxsplit + 1, n)

Whitespace == {" "}

RECURSIVE LStrip(_)
LStrip(s) ==
    IF s # <<>> /\ Head(s) \in Whitespace THEN LStrip(Tail(s)) ELSE s

RECURSIVE RStrip(_)
RStrip(s) ==
    IF s # <<>> /\ s[Len(s)] \in Whitespace
    THEN RStrip(SubSeq(s, 1, Len(s) - 1))
    ELSE s

\* s.strip()
Strip(s) == RStrip(LStrip(s))

(***************************************************************************)
(* urllib.parse.urlparse and pathlib.Path(...).name, as pinfiles.py uses   *)
(* them.  The alphabet of the model has no ';' (params) and no upper-case  *)
(* scheme letters, so those two steps of urlparse are the identity here.   *)
(***************************************************************************)
\* characters urlsplit accepts in a scheme
Letters == {"h", "c", "p", "a", "b", "m", "x"}
SchemeChars == Letters \cup {"0", "1", "2", "-", "."}

urlparse(u) ==
    LET i         == Find(u, ":")
        hasScheme == /\ i > 1
                     /\ u[1] \in Letters
                     /\ \A j \in 1..(i - 1) : u[j] \in SchemeChars
        scheme    == IF hasScheme THEN SubSeq(u, 1, i - 1) ELSE <<>>
        r1        == IF hasScheme THEN SubSeq(u, i + 1, Len(u)) ELSE u
        hasNetloc == Len(r1) >= 2 /\ r1[1] = "/" /\ r1[2] = "/"
        r1b       == IF hasNetloc THEN SubSeq(r1, 3, Len(r1)) ELSE r1
        d         == FindAny(r1b, {"/", "?", "#"})
        netloc    == IF hasNetloc THEN SubSeq(r1b, 1, d - 1) ELSE <<>>
        r2        == IF hasNetloc THEN SubSeq(r1b, d, Len(r1b)) ELSE r1
        f         == Find(r2, "#")
        fragment  == IF f > 0 THEN SubSeq(r2, f + 1, Len(r2)) ELSE <<>>
        r3        == IF f > 0 THEN SubSeq(r2, 1, f - 1) ELSE r2
        q         == Find(r3, "?")
        query     == IF q > 0 THEN SubSeq(r3, q + 1, Len(r3)) ELSE <<>>
        path      == IF q > 0 THEN SubSeq(r3, 1, q - 1) ELSE r3
    IN  [scheme |-> scheme, netloc |-> netloc, path |-> path,
         query |-> query, fragment |-> fragment]

\* Path(p).name: the last path component, "" when there is none
PathName(p) ==
    LET parts == SelectSeq(Split(p, "/"), LAMBDA s : s # <<>> /\ s # <<".">>)
    IN  IF parts = <<>> THEN <<>> ELSE parts[Len(parts)]

(***************************************************************************)
(* pinfiles.py: decoding of a lock file.                                   *)
(***************************************************************************)
\* the header line of a lock file
EXPLICIT == <<"@", "E", "X", "P", "L", "I", "C", "I", "T">>

\* (mutant of AllButLastTwo: only the first component is kept)
AllButLastTwo_first_only(components) == SubSeq(components, 1, 1)

\* package_components[:-2]
AllButLastTwo(components) == SubSeq(components, 1, Len(components) - 2)

\* (mutant of MatchSpecOfLine: the url is put together without the netloc)
MatchSpecOfLine_no_netloc(line) ==
    LET parsed             == urlparse(Strip(line))
        package_components == RSplit(PathName(parsed.path), "-", 3)
    IN  [name |-> JoinWith(AllButLastTwo(package_components), "-"),
         url  |-> parsed.scheme \o <<":", "/", "/">> \o parsed.path,
         md5  |-> parsed.fragment]

\* the entry yielded for one line after the header: the three values the
\* f-string name[url='..', md5='..'] is formatted from
MatchSpecOfLine(line) ==
    LET parsed             == urlparse(Strip(line))
        package_components == RSplit(PathName(parsed.path), "-", 3)
    IN  [name |-> JoinWith(AllButLastTwo(package_components), "-"),
         url  |-> parsed.scheme \o <<":", "/", "/">> \o parsed.netloc \o parsed.path,
         md5  |-> parsed.fragment]

\* the loop's test for the header line
IsHeaderLine(line) == Strip(line) = EXPLICIT

RECURSIVE DecodeFrom(_, _)
\* the loop over the lines of the file, header being the loop's flag
DecodeFrom(lines, header) ==
    IF lines = <<>> THEN <<>>
    ELSE IF header
         THEN DecodeFrom(Tail(lines), ~IsHeaderLine(Head(lines)))
         ELSE <<MatchSpecOfLine(Head(lines))>> \o DecodeFrom(Tail(lines), FALSE)

\* list(get_match_specs_from_conda_pinfile(path)) for a file holding lines
get_match_specs_from_conda_pinfile(lines) == DecodeFrom(lines, TRUE)

(***************************************************************************)
(* Env.pin: the lines it writes.                                           *)
(***************************************************************************)
\* the text of line k of the lock file pin writes for records (k = 1 is the
\* header, k = i + 1 is record i), without the "\n" that ends it
PinLine(records, k) == IF k = 1 THEN EXPLICIT ELSE records[k - 1].url

\* the whole file pin writes
PinLines(records) == [k \in 1..(Len(records) + 1) |-> PinLine(records, k)]

\* record_to_asset_name: record.url.split("/")[-1]
record_to_asset_name(record) ==
    LET parts == Split(record.url, "/") IN parts[Len(parts)]

(***************************************************************************)
(* The world outside the program: the channel's packages, the environment  *)
(* files and the lock files a user may have put on disk.                   *)
(***************************************************************************)
\* the url of a package file on the channel
ChannelUrl(file) == <<"h", ":", "/", "/", "c", "/">> \o file

\* package records of the channel (RepoDataRecord: name, version, url);
\* "p" stands for python
PkgP1 == [name |-> <<"p">>, version |-> 1,
          url |-> ChannelUrl(<<"p", "-", "1", "-", "0">>)]
PkgP2 == [name |-> <<"p">>, version |-> 2,
          url |-> ChannelUrl(<<"p", "-", "2", "-", "0">>)]
PkgAB == [name |-> <<"a", "-", "b">>, version |-> 1,
          url |-> ChannelUrl(<<"a", "-", "b", "-", "1", "-", "0">>)]
Packages == {PkgP1, PkgP2, PkgAB}

\* what the channel may serve: the newer python appears with a channel update
Repos == {{PkgP1, PkgAB}, {PkgP1, PkgP2, PkgAB}}

\* self.cache_path / f".{pkg_name}.part" and self.cache_path / pkg_name: the
\* names of the two files of an artifact in the cache directory
\* (mutant of tmp_cache_path: the body is written under the final name)
tmp_cache_path_final(name) == name
tmp_cache_path(name) == <<".">> \o name \o <<".", "p", "a", "r", "t">>
cache_path(name) == name

\* names of the cache directory's files
AssetNames == {record_to_asset_name(r) : r \in Packages}
CacheFileNames ==
    {cache_path(a) : a \in AssetNames} \cup {tmp_cache_path(a) : a \in AssetNames}

\* a dependency entry of the environment file: a string or a {pip: [...]} dict
Str(s) == [kind |-> "str", val |-> s]
PipDict(specs) == [kind |-> "dict", pip |-> specs]

\* parsed environment files (yaml documents with channels and dependencies)
EnvFiles ==
    { [channels |-> <<"c">>, dependencies |-> <<>>],
      [channels |-> <<"c">>, dependencies |-> <<Str(<<"p">>)>>],
      [channels |-> <<"c">>,
       dependencies |-> <<Str(<<"p">>), Str(<<"a", "-", "b">>)>>],
      [channels |-> <<"c">>,
       dependencies |-> <<Str(<<"a", "-", "b">>), PipDict(<<<<"x", " ", "1">>>>)>>],
      [channels |-> <<"c">>,
       dependencies |-> <<Str(<<"p">>), PipDict(<<<<"x", " ", "1">>>>)>>] }

\* lock files found on disk that pin did not write: one of another tool,
\* with a checksum fragment; one without the header line; one whose first
\* line is not the header
UserLockFiles ==
    { <<EXPLICIT, PkgAB.url \o <<"#", "m">>, PkgP1.url>>,
      <<PkgP1.url>>,
      <<<<"@", "E">>, PkgP1.url>> }

(***************************************************************************)
(* The external services, at their interface.                              *)
(***************************************************************************)
\* conda_specs: the dependencies that are not dicts
conda_specs(content) ==
    LET strs == SelectSeq(content.dependencies, LAMBDA d : d.kind # "dict")
    IN  [i \in 1..Len(strs) |-> strs[i].val]

\* pypi_specs: the pip list of the first dict, [] when there is none
pypi_specs(content) ==
    LET dicts == SelectSeq(content.dependencies, LAMBDA d : d.kind = "dict")
    IN  IF dicts = <<>> THEN <<>> ELSE dicts[1].pip

\* the solver can satisfy specs from the packages served
Satisfiable(specs, served) ==
    \A i \in 1..Len(specs) : \E r \in served : r.name = specs[i]

\* rattler.solve: one record per spec, the newest version served, in the
\* order of the specs
solve(specs, served) ==
    [i \in 1..Len(specs) |->
        CHOOSE r \in served :
            /\ r.name = specs[i]
            /\ \A o \in served : o.name = specs[i] => o.version <= r.version]

\* Gateway.query(specs, recursive=False): the served records that a spec
\* name[url=..] selects
gateway_query(specs, served) ==
    LET hits == SelectSeq(specs,
                    LAMBDA m : \E r \in served : r.name = m.name /\ r.url = m.url)
    IN  [i \in 1..Len(hits) |->
            CHOOSE r \in served : r.name = hits[i].name /\ r.url = hits[i].url]

(***************************************************************************)
(* EnvSpec: the dataclass and its __post_init__.                           *)
(***************************************************************************)
\* s.rfind(c), 1-based; 0 when c does not occur in s
RFind(s, c) ==
    IF \E i \in 1..Len(s) : s[i] = c
    THEN CHOOSE i \in 1..Len(s) : s[i] = c /\ \A j \in (i + 1)..Len(s) : s[j] # c
    ELSE 0

\* str(Platform.current()), and PINFILE_SUFFIX = f".{Platform.current()}.pin.txt"
Platform == <<"l", "-", "6", "4">>
PINFILE_SUFFIX == <<".">> \o Platform \o <<".", "p", "i", "n", ".", "t", "x", "t">>

\* PurePath.stem of a file name: the name without its last suffix; a leading
\* or a trailing dot starts no suffix
Stem(name) ==
    LET i == RFind(name, ".")
    IN  IF 1 < i /\ i < Len(name) THEN SubSeq(name, 1, i - 1) ELSE name

\* Path(p).with_suffix(suffix): the path with the last suffix of its name
\* replaced; None stands for the ValueError of a path with an empty name
with_suffix(p, suffix) ==
    LET parts  == SelectSeq(Split(p, "/"), LAMBDA c : c # <<>> /\ c # <<".">>)
        n      == Len(parts)
        root   == IF p # <<>> /\ p[1] = "/" THEN <<"/">> ELSE <<>>
        renamed == [k \in 1..n |->
                      IF k = n THEN Stem(parts[n]) \o suffix ELSE parts[k]]
    IN  IF n = 0 THEN None ELSE Some(root \o JoinWith(renamed, "/"))

\* sum(x is not None for x in (self.envfile, self.name, self.directory))
NumSet(args) ==
    Cardinality({f \in {"envfile", "name", "directory"} : args[f] # None})

\* (mutant of EnvSpecPostInit: at least one identity field is asked for)
EnvSpecPostInit_at_least_one(args) ==
    IF NumSet(args) < 1
    THEN [error |-> "WorkflowError", args |-> args, envfile |-> None,
          directory |-> None, name |-> None, pinfile |-> None]
    ELSE [error |-> "none", args |-> args, envfile |-> args.envfile,
          directory |-> args.directory, name |-> args.name,
          pinfile |-> IF args.envfile # None
                      THEN with_suffix(args.envfile.val, PINFILE_SUFFIX)
                      ELSE args.pinfile]

\* EnvSpec(envfile, directory, name, pinfile): the fields after __post_init__,
\* or the error it raised; args keeps the arguments of the constructor
EnvSpecPostInit(args) ==
    IF NumSet(args) # 1
    THEN [error |-> "WorkflowError", args |-> args, envfile |-> None,
          directory |-> None, name |-> None, pinfile |-> None]
    ELSE IF args.envfile # None /\ with_suffix(args.envfile.val, PINFILE_SUFFIX) = None
    THEN [error |-> "ValueError", args |-> args, envfile |-> None,
          directory |-> None, name |-> None, pinfile |-> None]
    ELSE [error |-> "none", args |-> args, envfile |-> args.envfile,
          directory |-> args.directory, name |-> args.name,
          pinfile |-> IF args.envfile # None
                      THEN with_suffix(args.envfile.val, PINFILE_SUFFIX)
                      ELSE args.pinfile]

\* an instance whose spec is not constructed yet
NoSpec ==
    [error |-> "unconstructed",
     args |-> [envfile |-> None, directory |-> None, name |-> None, pinfile |-> None],
     envfile |-> None, directory |-> None, name |-> None, pinfile |-> None]

\* paths of environment files, names and directories of environments, and
\* lock-file paths a caller may pass to the constructor
EnvFilePaths == {<<"e", ".", "y">>, <<"d", ".", "x", "/", "e">>}
EnvNames == {<<"n">>, <<"e", ".", "y">>}
EnvDirectories == {<<"/", "d">>, <<"e", ".", "y">>}
PinFilePaths == {<<"e">> \o PINFILE_SUFFIX, <<"x">>}

\* an optional argument taken from S
Opt(S) == {None} \cup {Some(v) : v \in S}

\* the arguments of the constructor
EnvSpecArgs ==
    [envfile : Opt(EnvFilePaths), directory : Opt(EnvDirectories),
     name : Opt(EnvNames), pinfile : Opt(PinFilePaths)]

\* the spec of the instances that resolve, pin, cache and deploy
FileSpec ==
    EnvSpecPostInit([envfile |-> Some(<<"e", ".", "y">>), directory |-> None,
                     name |-> None, pinfile |-> None])

(***************************************************************************)
(* State.                                                                  *)
(***************************************************************************)
\* coroutines running operations, and the Env instances they run them on
Tasks == {"t1", "t2"}
Envs == {"e1", "e2"}

\* inodes of the cache directory's file system; 0 is "no such file"
Inodes == 1..(Cardinality(CacheFileNames) + Cardinality(Tasks))

VARIABLES
    repo,                   \* the package records the channel serves
    envfile,                \* the parsed environment file (envfile_content)
    pinfile_cached,         \* the file at self.spec.pinfile.cached
    pinfile,                \* the file at self.pinfile
    cache_dir,              \* cache directory: the inode of each file name
    inode,                  \* content of each inode: chunk numbers, 0 a hole
    prefix,                 \* the deployment path
    package_records_cache,  \* Env._package_records_cache of each instance
    within,                 \* whether each instance has a parent environment
    inst,                   \* the instance each task works on
    task,                   \* each task's operation, position and locals
    calls,                  \* per instance: external calls made so far
    spec,                   \* the EnvSpec of each instance
    hashed                  \* per instance: what record_hash fed to the hash

vars == <<repo, envfile, pinfile_cached, pinfile, cache_dir, inode, prefix,
          package_records_cache, within, inst, task, calls, spec, hashed>>

world == <<repo, envfile, pinfile_cached, pinfile, within, inst, spec, hashed>>
cachedir == <<cache_dir, inode>>

\* a task that runs nothing
IdleTask ==
    [op   |-> "none",   \* the operation called
     pc   |-> "idle",   \* position in it
     n    |-> 0,        \* operations started so far
     res  |-> "none",   \* how the last operation ended: "ok" or the error
     ret  |-> None,     \* what _package_records returned
     how  |-> "none",   \* where that came from: "memo", "gateway", "solve"
     saw  |-> [cached |-> None, own |-> None],
                        \* the two lock files as they were when _package_records
                        \* looked for them
     req  |-> <<>>,     \* the specs of the request in flight
     idx  |-> 0,        \* loop index over the records (kept at the end)
     had  |-> FALSE,    \* the final file was there when the record's turn came
     at   |-> "idle",   \* the position at which the last operation ended
     pos  |-> 0,        \* chunks written to the open file
     fd   |-> 0]        \* inode of the open file

\* record_hash was not called on the instance yet
NotHashed == [n |-> 0, bytes |-> <<>>, cold |-> FALSE]

\* the state after construction: Env.__post_init__ and an empty cache
\* directory and deployment path
InitProgram ==
    /\ package_records_cache = [e \in Envs |-> None]
    /\ task = [t \in Tasks |-> IdleTask]
    /\ calls = [e \in Envs |-> [solve |-> 0, gateway |-> 0, read |-> 0]]
    /\ cache_dir = [f \in CacheFileNames |-> 0]
    /\ inode = [k \in Inodes |-> <<>>]
    /\ prefix = [installed |-> None, python |-> FALSE, pip |-> None]
    /\ spec = [e \in Envs |-> FileSpec]
    /\ hashed = [e \in Envs |-> NotHashed]

\* the operation ends: its locals are dropped
Finish(tk, result) ==
    [tk EXCEPT !.pc = "idle", !.at = tk.pc, !.res = result, !.req = <<>>,
               !.pos = 0, !.fd = 0]

\* inode k is reachable: a directory entry or an open file refers to it
Referenced(k, dir, tks) ==
    \/ \E f \in CacheFileNames : dir[f] = k
    \/ \E t \in Tasks : tks[t].fd = k

\* unreachable inodes are freed
Collect(ino, dir, tks) ==
    [k \in Inodes |-> IF Referenced(k, dir, tks) THEN ino[k] ELSE <<>>]

(***************************************************************************)
(* A caller starts an operation on its instance.                           *)
(***************************************************************************)
Ops == {"_package_records", "pin", "cache_assets", "deploy"}

\* (mutant of FirstStep: deploy never goes through run_method)
FirstStep_never_delegates(o, hasParent) == "resolve"

\* (mutant of FirstStep: deploy calls install before it resolves)
FirstStep_install_first(o, hasParent) ==
    IF o = "deploy" THEN "await_install" ELSE "resolve"

\* deploy returns through run_method when the instance has a parent
\* environment; every other path starts with await self._package_records()
FirstStep(o, hasParent) ==
    IF o = "deploy" /\ hasParent THEN "run_method" ELSE "resolve"

Call(t, o) ==
    /\ task[t].pc = "idle"
    /\ task[t].n < MaxCalls
    /\ task' = [task EXCEPT ![t] =
                   [IdleTask EXCEPT !.op = o, !.n = task[t].n + 1,
                                    !.pc = FirstStep(o, within[inst[t]])]]
    /\ UNCHANGED <<world, cachedir, prefix, package_records_cache, calls>>

(***************************************************************************)
(* Env._package_records                                                    *)
(***************************************************************************)
\* (mutant of CacheMiss: an empty list counts as not resolved)
CacheMiss_falsy(c) == c = None \/ c.val = <<>>
\* if self._package_records_cache is None
CacheMiss(c) == c = None

\* (mutant of ChosenPinfile: only the cached copy is looked for)
ChosenPinfile_cached_only(cached, own) == cached
\* self.spec.pinfile.cached if it exists, else self.pinfile
ChosenPinfile(cached, own) == IF cached # None THEN cached ELSE own

\* the call up to its await: a memoized list returns at once; otherwise the
\* lock file, when there is one, is decoded and the gateway is queried, and
\* with no lock file the solver is called
PackageRecordsEnter(t) ==
    LET e      == inst[t]
        chosen == ChosenPinfile(pinfile_cached, pinfile)
    IN  /\ task[t].pc = "resolve"
        /\ IF ~CacheMiss(package_records_cache[e])
           THEN /\ task' = [task EXCEPT ![t].pc = "resolved",
                                        ![t].ret = package_records_cache[e],
                                        ![t].how = "memo"]
                /\ calls' = calls
           ELSE IF chosen # None
           THEN /\ task' = [task EXCEPT
                       ![t].pc = "await_gateway",
                       ![t].saw = [cached |-> pinfile_cached, own |-> pinfile],
                       ![t].req = get_match_specs_from_conda_pinfile(chosen.val)]
                /\ calls' = [calls EXCEPT ![e].gateway = @ + 1, ![e].read = @ + 1]
           ELSE /\ task' = [task EXCEPT
                       ![t].pc = "await_solve",
                       ![t].saw = [cached |-> pinfile_cached, own |-> pinfile],
                       ![t].req = conda_specs(envfile)]
                /\ calls' = [calls EXCEPT ![e].solve = @ + 1]
        /\ UNCHANGED <<world, cachedir, prefix, package_records_cache>>

\* gateway.query returns: the records are memoized and returned
GatewayReturn(t) ==
    LET records == gateway_query(task[t].req, repo)
    IN  /\ task[t].pc = "await_gateway"
        /\ package_records_cache' =
               [package_records_cache EXCEPT ![inst[t]] = Some(records)]
        /\ task' = [task EXCEPT ![t].pc = "resolved", ![t].req = <<>>,
                                ![t].ret = Some(records), ![t].how = "gateway"]
        /\ UNCHANGED <<world, cachedir, prefix, calls>>

\* solve returns: the records are memoized and returned
SolveReturn(t) ==
    LET records == solve(task[t].req, repo)
    IN  /\ task[t].pc = "await_solve"
        /\ Satisfiable(task[t].req, repo)
        /\ package_records_cache' =
               [package_records_cache EXCEPT ![inst[t]] = Some(records)]
        /\ task' = [task EXCEPT ![t].pc = "resolved", ![t].req = <<>>,
                                ![t].ret = Some(records), ![t].how = "solve"]
        /\ UNCHANGED <<world, cachedir, prefix, calls>>

\* (mutant of ResolutionFails: the failed resolution is memoized as empty)
ResolutionFails_memoizes_empty(t) ==
    /\ task[t].pc \in {"await_gateway", "await_solve"}
    /\ task' = [task EXCEPT ![t] = Finish(task[t], "ResolutionError")]
    /\ package_records_cache' = [package_records_cache EXCEPT ![inst[t]] = Some(<<>>)]
    /\ UNCHANGED <<world, cachedir, prefix, calls>>

\* the gateway or the solver raises: nothing is memoized, the error goes to
\* the caller of the operation
ResolutionFails(t) ==
    /\ task[t].pc \in {"await_gateway", "await_solve"}
    /\ task' = [task EXCEPT ![t] = Finish(task[t], "ResolutionError")]
    /\ UNCHANGED <<world, cachedir, prefix, package_records_cache, calls>>

\* a direct call of _package_records returns to its caller
PackageRecordsReturn(t) ==
    /\ task[t].pc = "resolved"
    /\ task[t].op = "_package_records"
    /\ task' = [task EXCEPT ![t] = Finish(task[t], "ok")]
    /\ UNCHANGED <<world, cachedir, prefix, package_records_cache, calls>>

(***************************************************************************)
(* Env.pin                                                                 *)
(***************************************************************************)
\* aiofiles.open(self.pinfile, "w"): the file is created, or emptied
PinOpen(t) ==
    /\ task[t].pc = "resolved"
    /\ task[t].op = "pin"
    /\ pinfile' = Some(<<>>)
    /\ task' = [task EXCEPT ![t].pc = "pin_write", ![t].idx = 1]
    /\ UNCHANGED <<repo, envfile, pinfile_cached, within, inst, spec, hashed,
                   cachedir, prefix, package_records_cache, calls>>

\* one f.write: the header first, then one line per record
PinWrite(t) ==
    LET records == task[t].ret.val
    IN  /\ task[t].pc = "pin_write"
        /\ task[t].idx <= Len(records) + 1
        /\ pinfile' = Some(Append(pinfile.val, PinLine(records, task[t].idx)))
        /\ task' = [task EXCEPT ![t].idx = @ + 1]
        /\ UNCHANGED <<repo, envfile, pinfile_cached, within, inst, spec,
                       hashed, cachedir, prefix, package_records_cache, calls>>

\* every line is written: the file is closed and pin returns
PinClose(t) ==
    /\ task[t].pc = "pin_write"
    /\ task[t].idx = Len(task[t].ret.val) + 2
    /\ task' = [task EXCEPT ![t] = Finish(task[t], "ok")]
    /\ UNCHANGED <<world, cachedir, prefix, package_records_cache, calls>>

(***************************************************************************)
(* Env.cache_assets                                                        *)
(***************************************************************************)
\* the record the loop is at, and its file name in the cache directory
CurrentRecord(tk) == tk.ret.val[tk.idx]
pkg_name(tk) == record_to_asset_name(CurrentRecord(tk))

\* the content of a file after chunk v is written at offset off: a write
\* past the end of the file leaves a hole before it
WriteAt(content, off, v) ==
    [i \in 1..(IF Len(content) > off THEN Len(content) ELSE off) |->
        IF i = off THEN v ELSE IF i <= Len(content) THEN content[i] ELSE 0]

\* the body of the artifact, chunk by chunk
Body == [i \in 1..NumChunks |-> i]

\* the for loop starts over the resolved records
CacheAssetsBegin(t) ==
    /\ task[t].pc = "resolved"
    /\ task[t].op = "cache_assets"
    /\ task' = [task EXCEPT ![t].pc = "loop", ![t].idx = 1]
    /\ UNCHANGED <<world, cachedir, prefix, package_records_cache, calls>>

\* the next record: the client is opened and the GET request is sent; after
\* the last record cache_assets returns
CacheAssetsNext(t) ==
    /\ task[t].pc = "loop"
    /\ IF task[t].idx > Len(task[t].ret.val)
       THEN task' = [task EXCEPT ![t] = Finish(task[t], "ok")]
       ELSE task' = [task EXCEPT
                        ![t].pc = "await_get",
                        ![t].had = cache_dir[cache_path(pkg_name(task[t]))] # 0]
    /\ UNCHANGED <<world, cachedir, prefix, package_records_cache, calls>>

\* the transport fails, or raise_for_status() raises
GetFails(t) ==
    /\ task[t].pc = "await_get"
    /\ task' = [task EXCEPT ![t] = Finish(task[t], "DownloadError")]
    /\ UNCHANGED <<world, cachedir, prefix, package_records_cache, calls>>

\* (mutant of SkipDownload: the test is inverted)
SkipDownload_inverted(dir, name) == dir[name] = 0
\* the file is in the cache already: if not cache_path.exists() is false
SkipDownload(dir, name) == dir[cache_path(name)] # 0

\* the response arrived with a success status; the body is written only if
\* the final file does not exist
GetReturns(t) ==
    /\ task[t].pc = "await_get"
    /\ task' = [task EXCEPT ![t].pc =
                   IF SkipDownload(cache_dir, pkg_name(task[t]))
                   THEN "client_exit" ELSE "open"]
    /\ UNCHANGED <<world, cachedir, prefix, package_records_cache, calls>>

\* aiofiles.open(tmp_cache_path, "wb"): the temporary file is created, or
\* emptied if it is there
OpenPart(t) ==
    LET tmp == tmp_cache_path(pkg_name(task[t]))
        k   == IF cache_dir[tmp] # 0 THEN cache_dir[tmp]
               ELSE CHOOSE i \in Inodes :
                       /\ ~Referenced(i, cache_dir, task)
                       /\ \A j \in 1..(i - 1) : Referenced(j, cache_dir, task)
    IN  /\ task[t].pc = "open"
        /\ cache_dir' = [cache_dir EXCEPT ![tmp] = k]
        /\ inode' = [inode EXCEPT ![k] = <<>>]
        /\ task' = [task EXCEPT ![t].pc = "write", ![t].fd = k, ![t].pos = 0]
        /\ UNCHANGED <<world, prefix, package_records_cache, calls>>

\* one chunk of the body is written at the position of the open file
WriteChunk(t) ==
    /\ task[t].pc = "write"
    /\ task[t].pos < NumChunks
    /\ inode' = [inode EXCEPT ![task[t].fd] =
                    WriteAt(@, task[t].pos + 1, Body[task[t].pos + 1])]
    /\ task' = [task EXCEPT ![t].pos = @ + 1]
    /\ UNCHANGED <<world, cache_dir, prefix, package_records_cache, calls>>

\* the body is written: the temporary file is closed
ClosePart(t) ==
    /\ task[t].pc = "write"
    /\ task[t].pos = NumChunks
    /\ task' = [task EXCEPT ![t].pc = "replace", ![t].fd = 0, ![t].pos = 0]
    /\ inode' = Collect(inode, cache_dir, task')
    /\ UNCHANGED <<world, cache_dir, prefix, package_records_cache, calls>>

\* the directory after os.replace(src, dst), src being there: dst names the
\* file of src, and src is no name any more
Renamed(dir, src, dst) ==
    [f \in CacheFileNames |->
        IF f = dst THEN dir[src] ELSE IF f = src THEN 0 ELSE dir[f]]

\* os.replace(tmp_cache_path, cache_path); FileNotFoundError if the temporary
\* name is not there
Replace(t) ==
    LET tmp == tmp_cache_path(pkg_name(task[t]))
        dst == cache_path(pkg_name(task[t]))
    IN  /\ task[t].pc = "replace"
        /\ IF cache_dir[tmp] = 0
           THEN /\ task' = [task EXCEPT ![t] = Finish(task[t], "FileNotFoundError")]
                /\ UNCHANGED cachedir
           ELSE /\ cache_dir' = Renamed(cache_dir, tmp, dst)
                /\ task' = [task EXCEPT ![t].pc = "client_exit"]
                /\ inode' = Collect(inode, cache_dir', task')
        /\ UNCHANGED <<world, prefix, package_records_cache, calls>>

\* the http client is closed; the loop goes on to the next record
ClientExit(t) ==
    /\ task[t].pc = "client_exit"
    /\ task' = [task EXCEPT ![t].pc = "loop", ![t].idx = @ + 1]
    /\ UNCHANGED <<world, cachedir, prefix, package_records_cache, calls>>

(***************************************************************************)
(* Env.deploy                                                              *)
(***************************************************************************)
\* spec.replace(" ", "")
NoSpaces(s) == SelectSeq(s, LAMBDA c : c # " ")

\* the name of the package that puts bin/python into the prefix
PythonName == <<"p">>

\* the records deploy of a copy of the instance installs in the parent
\* environment: the memoized list, or what the copy resolves
RemoteRecords(e) ==
    LET chosen == ChosenPinfile(pinfile_cached, pinfile)
    IN  IF ~CacheMiss(package_records_cache[e]) THEN package_records_cache[e].val
        ELSE IF chosen # None
        THEN gateway_query(get_match_specs_from_conda_pinfile(chosen.val), repo)
        ELSE solve(conda_specs(envfile), repo)

\* what install(records, target_prefix, cache_dir) leaves in the prefix
Installed(pfx, records) ==
    [pfx EXCEPT !.installed = Some(records),
                !.python = @ \/ \E i \in 1..Len(records) :
                                    records[i].name = PythonName]

\* run_method("deploy") returns: the command ran deploy of a copy of the
\* instance inside the parent environment
RunMethodReturn(t) ==
    /\ task[t].pc = "run_method"
    /\ \/ /\ Satisfiable(conda_specs(envfile), repo)
          /\ prefix' = Installed(prefix, RemoteRecords(inst[t]))
          /\ task' = [task EXCEPT ![t] = Finish(task[t], "ok")]
       \/ /\ prefix' = prefix
          /\ task' = [task EXCEPT ![t] = Finish(task[t], "WorkflowError")]
    /\ UNCHANGED <<world, cachedir, package_records_cache, calls>>

\* records = await self._package_records() is back: install is called
DeployInstall(t) ==
    /\ task[t].pc = "resolved"
    /\ task[t].op = "deploy"
    /\ task' = [task EXCEPT ![t].pc = "await_install"]
    /\ UNCHANGED <<world, cachedir, prefix, package_records_cache, calls>>

\* install raises
InstallFails(t) ==
    /\ task[t].pc = "await_install"
    /\ task' = [task EXCEPT ![t] = Finish(task[t], "InstallError")]
    /\ UNCHANGED <<world, cachedir, prefix, package_records_cache, calls>>

\* (mutant of InstallReturns: python_path.exists() is not tested)
InstallReturns_no_python_check(t) ==
    LET after == Installed(prefix, task[t].ret.val)
        specs == [i \in 1..Len(pypi_specs(envfile)) |->
                     NoSpaces(pypi_specs(envfile)[i])]
    IN  /\ task[t].pc = "await_install"
        /\ prefix' = after
        /\ task' = [task EXCEPT ![t] =
                       IF specs = <<>> THEN Finish(task[t], "ok")
                       ELSE [task[t] EXCEPT !.pc = "uv_pip", !.req = specs]]
        /\ UNCHANGED <<world, cachedir, package_records_cache, calls>>

\* install returns; without pypi specs deploy is done, without
\* <prefix>/bin/python it raises, otherwise uv pip install is run
InstallReturns(t) ==
    LET after == Installed(prefix, task[t].ret.val)
        specs == [i \in 1..Len(pypi_specs(envfile)) |->
                     NoSpaces(pypi_specs(envfile)[i])]
    IN  /\ task[t].pc = "await_install"
        /\ prefix' = after
        /\ task' = [task EXCEPT ![t] =
                       IF specs = <<>> THEN Finish(task[t], "ok")
                       ELSE IF ~after.python
                       THEN Finish(task[t], "NoPythonError")
                       ELSE [task[t] EXCEPT !.pc = "uv_pip", !.req = specs]]
        /\ UNCHANGED <<world, cachedir, package_records_cache, calls>>

\* sp.run(["uv", "pip", "install", ...], check=True) returns or raises
UvPipReturns(t) ==
    /\ task[t].pc = "uv_pip"
    /\ \/ /\ prefix' = [prefix EXCEPT !.pip = Some(task[t].req)]
          /\ task' = [task EXCEPT ![t] = Finish(task[t], "ok")]
       \/ /\ prefix' = prefix
          /\ task' = [task EXCEPT ![t] = Finish(task[t], "PipError")]
    /\ UNCHANGED <<world, cachedir, package_records_cache, calls>>

(***************************************************************************)
(* What happens to the program from outside.                               *)
(***************************************************************************)
\* the caller cancels the operation, or the process is interrupted: open
\* files are closed, nothing is cleaned up
Abort(t) ==
    /\ task[t].pc # "idle"
    /\ task' = [task EXCEPT ![t] = Finish(task[t], "Abort")]
    /\ inode' = Collect(inode, cache_dir, task')
    /\ UNCHANGED <<world, cache_dir, prefix, package_records_cache, calls>>

\* lock files the host has materialized at the cached path
CachedLockFiles == {<<EXPLICIT, PkgAB.url>>}

\* no operation is running
Quiet == \A t \in Tasks : task[t].pc = "idle"

\* the channel publishes or withdraws packages, between two operations
ChannelUpdate ==
    /\ Quiet
    /\ repo' \in Repos \ {repo}
    /\ UNCHANGED <<envfile, pinfile_cached, pinfile, within, inst, spec, hashed,
                   cachedir, prefix, package_records_cache, task, calls>>

(***************************************************************************)
(* Spec: independent processes, each with its own Env instance of the same *)
(* environment, populate one cache directory with cache_assets.            *)
(***************************************************************************)
\* a lock file as pin writes it
PinnedLockFile == PinLines(<<PkgAB, PkgP1>>)

Init ==
    /\ InitProgram
    /\ repo = {PkgP1, PkgAB}
    /\ envfile \in {f \in EnvFiles : pypi_specs(f) = <<>> /\ conda_specs(f) # <<>>}
    /\ pinfile_cached = None
    /\ pinfile \in {None, Some(PinnedLockFile)}
    /\ within = [e \in Envs |-> FALSE]
    /\ inst = [t \in Tasks |-> IF t = "t1" THEN "e1" ELSE "e2"]

CacheSteps(t) ==
    \/ PackageRecordsEnter(t)
    \/ GatewayReturn(t)
    \/ SolveReturn(t)
    \/ ResolutionFails(t)
    \/ CacheAssetsBegin(t)
    \/ CacheAssetsNext(t)
    \/ GetFails(t)
    \/ GetReturns(t)
    \/ OpenPart(t)
    \/ WriteChunk(t)
    \/ ClosePart(t)
    \/ Replace(t)
    \/ ClientExit(t)
    \/ Abort(t)

\* each process is one invocation of cache_assets
Invoke(t) == task[t].n = 0 /\ Call(t, "cache_assets")

Next == \E t \in Tasks : Invoke(t) \/ CacheSteps(t)

Spec == Init /\ [][Next]_vars

(***************************************************************************)
(* SeqCacheSpec: one process calls cache_assets, one call after the other, *)
(* on a cache directory no other process writes to.                        *)
(***************************************************************************)
SeqCacheNext == Call("t1", "cache_assets") \/ CacheSteps("t1")

SeqCacheSpec == Init /\ [][SeqCacheNext]_vars

(***************************************************************************)
(* Properties of cache_assets.                                             *)
(***************************************************************************)
\* the file at the final name of a is there, and the file's content
FinalExists(a) == cache_dir[cache_path(a)] # 0
FinalContent(a) == inode[cache_dir[cache_path(a)]]
PartExists(a) == cache_dir[tmp_cache_path(a)] # 0

\* task t has ended a cache_assets call
Ended(t) == task[t].op = "cache_assets" /\ task[t].pc = "idle"

\* the positions of cache_assets at which it is handling record idx
Handling == {"await_get", "open", "write", "replace", "client_exit"}

\* C1: in every reachable state of concurrent cache_assets invocations, a
\* file at the final name <cache>/<name> holds the complete artifact; no
\* partially written file is ever visible under the final name.
C1_FinalNameIsComplete ==
    \A a \in AssetNames : FinalExists(a) => FinalContent(a) = Body

\* C2: when cache_assets invocations for the same records overlap and no
\* download fails and no caller aborts, every invocation that ends returns
\* without error, with each record's final file there and complete.
C2_ConcurrentCachingSucceeds ==
    \A t \in Tasks :
        ( /\ Ended(t)
          /\ task[t].how # "none"
          /\ \A u \in Tasks :
                task[u].res \notin {"DownloadError", "Abort", "ResolutionError"} )
        => /\ task[t].res = "ok"
           /\ \A i \in 1..Len(task[t].ret.val) :
                 LET a == record_to_asset_name(task[t].ret.val[i])
                 IN  FinalExists(a) /\ FinalContent(a) = Body

\* C3: cache_assets sends no download request for an artifact whose final
\* file exists already, so that two calls in sequence fetch each artifact at
\* most once.
C3_NoFetchWhenCached ==
    \A t \in Tasks :
        task[t].pc = "await_get" => ~FinalExists(pkg_name(task[t]))

\* a cache_assets call of t ended in a download error or an abort while it
\* was handling a record whose final file was not there when its turn came
FailedOnUncached(t) ==
    /\ Ended(t)
    /\ task[t].res \in {"DownloadError", "Abort"}
    /\ task[t].at \in Handling
    /\ ~task[t].had

\* C4 as stated: after a failed download or an abort at any point of the
\* handling of an artifact that was not cached before, no file is at the
\* artifact's final name.
C4_NoFinalAfterFailure ==
    \A t \in Tasks :
        FailedOnUncached(t) => ~FinalExists(pkg_name(task[t]))

\* C4 amended: with no other process writing to the cache directory, after a
\* failed download or an abort at any point before os.replace has renamed
\* the temporary file, the call has ended in an error and no file is at the
\* artifact's final name.
C4_NoFinalAfterFailureBeforeRename ==
    \A t \in Tasks :
        (FailedOnUncached(t) /\ task[t].at # "client_exit")
        => ~FinalExists(pkg_name(task[t]))

\* C4 witness: an abort while the body was being written, the temporary
\* file left behind
C4_Witness ==
    /\ FailedOnUncached("t1")
    /\ task["t1"].at = "write"
    /\ PartExists(pkg_name(task["t1"]))

\* C5: after a cache_assets call that ran to its end without error, every
\* record's final file is there and no .<name>.part file of a record is left.
C5_AllCachedNoPartLeft ==
    \A t \in Tasks :
        (Ended(t) /\ task[t].res = "ok")
        => \A i \in 1..Len(task[t].ret.val) :
              LET a == record_to_asset_name(task[t].ret.val[i])
              IN  FinalExists(a) /\ ~PartExists(a)

\* C5 witness: the first call of a process downloads two records and returns
C5_Witness ==
    /\ Ended("t1")
    /\ task["t1"].res = "ok"
    /\ task["t1"].n = 1
    /\ Len(task["t1"].ret.val) = 2
    /\ \A i \in 1..2 : FinalExists(record_to_asset_name(task["t1"].ret.val[i]))

(***************************************************************************)
(* ResolveSpec: the operations of one Env instance, one after the other,   *)
(* while the lock file and the channel change under it.                    *)
(***************************************************************************)
\* the environment files of this specification
ResolveEnvFiles ==
    {f \in EnvFiles : f.dependencies = <<>> \/ pypi_specs(f) # <<>>}

ResolveInit ==
    /\ InitProgram
    /\ repo \in Repos
    /\ envfile \in ResolveEnvFiles
    /\ pinfile_cached \in {None} \cup {Some(f) : f \in CachedLockFiles}
    /\ pinfile \in {None} \cup {Some(f) : f \in UserLockFiles}
    /\ within = [e \in Envs |-> FALSE]
    /\ inst = [t \in Tasks |-> "e1"]

\* the lock file on disk is edited, replaced or removed, between two
\* operations (the program reads the lock files in the first step of an
\* operation only, so a change during an operation is seen as one before or
\* after it)
LockFileChanges ==
    /\ Quiet
    /\ pinfile' \in ({None} \cup {Some(f) : f \in UserLockFiles}) \ {pinfile}
    /\ UNCHANGED <<repo, envfile, pinfile_cached, within, inst, spec, hashed,
                   cachedir, prefix, package_records_cache, task, calls>>

ResolveSteps(t) ==
    \/ PackageRecordsEnter(t)
    \/ GatewayReturn(t)
    \/ SolveReturn(t)
    \/ ResolutionFails(t)
    \/ PackageRecordsReturn(t)
    \/ PinOpen(t)
    \/ PinWrite(t)
    \/ PinClose(t)
    \/ CacheAssetsBegin(t)
    \/ CacheAssetsNext(t)
    \/ GetFails(t)
    \/ GetReturns(t)
    \/ OpenPart(t)
    \/ WriteChunk(t)
    \/ ClosePart(t)
    \/ Replace(t)
    \/ ClientExit(t)
    \/ DeployInstall(t)
    \/ InstallFails(t)
    \/ InstallReturns(t)
    \/ UvPipReturns(t)
    \/ Abort(t)

ResolveNext ==
    \/ \E o \in Ops : Call("t1", o)
    \/ ResolveSteps("t1")
    \/ LockFileChanges
    \/ ChannelUpdate

ResolveSpec == ResolveInit /\ [][ResolveNext]_vars

(***************************************************************************)
(* CodecSpec: pin writes the lock file of an instance that holds a list of *)
(* records, and a fresh instance decodes the lock file it finds.           *)
(***************************************************************************)
RECURSIVE SeqsUpTo(_, _)
\* the sequences over S of length at most n
SeqsUpTo(S, n) ==
    IF n = 0 THEN {<<>>}
    ELSE LET shorter == SeqsUpTo(S, n - 1)
         IN  shorter \cup {Append(q, x) : q \in shorter, x \in S}

\* lines a lock file on disk may hold after its header
UserLines ==
    { PkgP1.url,
      PkgAB.url \o <<"#", "m">>,
      <<" ">> \o PkgP2.url \o <<" ">>,
      ChannelUrl(<<"p", "-", "1">>),
      ChannelUrl(<<"p">>) }

\* the instance of t1 holds a resolved list of records, the instance of t2
\* is fresh, and a lock file may be on disk
CodecInit ==
    /\ task = [t \in Tasks |-> IdleTask]
    /\ calls = [e \in Envs |-> [solve |-> 0, gateway |-> 0, read |-> 0]]
    /\ cache_dir = [f \in CacheFileNames |-> 0]
    /\ inode = [k \in Inodes |-> <<>>]
    /\ prefix = [installed |-> None, python |-> FALSE, pip |-> None]
    /\ spec = [e \in Envs |-> FileSpec]
    /\ hashed = [e \in Envs |-> NotHashed]
    /\ package_records_cache \in
          {[e \in Envs |-> IF e = "e1" THEN Some(rs) ELSE None] :
              rs \in SeqsUpTo(Packages, MaxRecords)}
    /\ repo = {PkgP1, PkgP2, PkgAB}
    /\ envfile \in {f \in EnvFiles : Len(f.dependencies) = 1}
    /\ pinfile_cached = None
    /\ pinfile \in {None} \cup {Some(<<EXPLICIT>> \o ls) : ls \in SeqsUpTo(UserLines, 2)}
    /\ within = [e \in Envs |-> FALSE]
    /\ inst = [t \in Tasks |-> IF t = "t1" THEN "e1" ELSE "e2"]

\* the tasks that may take a step when operations do not overlap
Turn == {t \in Tasks : \A u \in Tasks \ {t} : task[u].pc = "idle"}

CodecNext ==
    \E t \in Turn :
        \/ Call(t, IF t = "t1" THEN "pin" ELSE "_package_records")
        \/ PackageRecordsEnter(t)
        \/ GatewayReturn(t)
        \/ SolveReturn(t)
        \/ PackageRecordsReturn(t)
        \/ PinOpen(t)
        \/ PinWrite(t)
        \/ PinClose(t)

CodecSpec == CodecInit /\ [][CodecNext]_vars

(***************************************************************************)
(* Properties of _package_records.                                         *)
(***************************************************************************)
\* the lines of a lock file after its first header line
RECURSIVE AfterHeader(_)
AfterHeader(lines) ==
    IF lines = <<>> THEN <<>>
    ELSE IF IsHeaderLine(Head(lines)) THEN Tail(lines)
    ELSE AfterHeader(Tail(lines))

\* the file has a header line
HasHeader(lines) == \E k \in 1..Len(lines) : IsHeaderLine(lines[k])

\* the final path segment of the url on a line
FinalSegment(line) == PathName(urlparse(Strip(line)).path)

\* the final segment has fewer than three components delimited by "-"
FewerThanThree(line) == Len(Split(FinalSegment(line), "-")) < 3

\* a valid lock file: the header on line 1, then lines with a url whose final
\* segment is name-version-build
ValidLockFile(f) ==
    /\ f # None
    /\ f.val # <<>>
    /\ f.val[1] = EXPLICIT
    /\ \A k \in 2..Len(f.val) : ~FewerThanThree(f.val[k])

\* task t is in, or has ended, a resolution that found nothing memoized
Looked(t) ==
    \/ task[t].pc \in {"await_gateway", "await_solve"}
    \/ task[t].how \in {"gateway", "solve"}

\* the lock file the resolution of t used, had it taken it from the cached
\* copy if there was one, else from the path of the instance
LockFileOf(t) ==
    IF task[t].saw.cached # None THEN task[t].saw.cached ELSE task[t].saw.own

\* the urls of the entries of a lock file
EntryUrls(f) ==
    LET entries == get_match_specs_from_conda_pinfile(f.val)
    IN  {entries[i].url : i \in 1..Len(entries)}

\* C6: when a valid lock file is at the pin-file path as an instance first
\* resolves its records, the solver is not called by that resolution, whatever
\* the environment file asks for, and the records returned are records of
\* lock-file entries.
C6_LockFilePrecedence ==
    \A t \in Tasks :
        (Looked(t) /\ ValidLockFile(task[t].saw.own))
        => /\ task[t].pc # "await_solve"
           /\ task[t].how # "solve"
           /\ task[t].how = "gateway" =>
                 \A i \in 1..Len(task[t].ret.val) :
                     task[t].ret.val[i].url \in EntryUrls(LockFileOf(t))

\* C6 witness: the environment file asks for python only, the lock file
\* holds two packages, and the resolution returned the two
C6_Witness ==
    /\ ValidLockFile(task["t1"].saw.own)
    /\ task["t1"].saw.cached = None
    /\ task["t1"].how = "gateway"
    /\ conda_specs(envfile) = <<PythonName>>
    /\ Len(task["t1"].ret.val) = 2

\* C7: a file at the lock-file path without the header line is treated as
\* absent: the resolution calls the solver and does not use the file.
C7_NoHeaderFallsBackToSolver ==
    \A t \in Tasks :
        (Looked(t) /\ LockFileOf(t) # None /\ ~HasHeader(LockFileOf(t).val))
        => /\ task[t].pc # "await_gateway"
           /\ task[t].how # "gateway"

\* C8: once an instance has memoized its records, the list never changes and
\* no later call, whatever ran in between and whatever happened to the lock
\* file, calls the solver or the gateway or reads the lock file; every call
\* returns the memoized list.
C8_Memoized ==
    /\ [][\A e \in Envs :
            package_records_cache[e] # None
            => /\ package_records_cache'[e] = package_records_cache[e]
               /\ calls'[e] = calls[e]]_vars
    /\ [](\A t \in Tasks :
            task[t].how # "none" => task[t].ret = package_records_cache[inst[t]])

\* C8 witness: a third operation got the memoized list of the solver, with a
\* lock file put on disk after the first
C8_Witness ==
    /\ task["t1"].how = "memo"
    /\ task["t1"].n >= 3
    /\ calls["e1"] = [solve |-> 1, gateway |-> 0, read |-> 0]
    /\ pinfile # None
    /\ task["t1"].ret.val # <<>>

(***************************************************************************)
(* Properties of the lock-file codec.                                      *)
(***************************************************************************)
\* C9: the lock file pin has written for N records decodes to N entries, in
\* the order of the records, each with the url of its record.
C9_PinRoundTrip ==
    \A t \in Tasks :
        (task[t].op = "pin" /\ task[t].pc = "idle" /\ task[t].res = "ok")
        => LET records == task[t].ret.val
               entries == get_match_specs_from_conda_pinfile(pinfile.val)
           IN  /\ Len(entries) = Len(records)
               /\ \A i \in 1..Len(records) : entries[i].url = records[i].url

\* C9 witness: pin has written three records, two of them the same package
\* in different versions, and the fresh instance has decoded the file
C9_Witness ==
    /\ task["t1"].op = "pin"
    /\ task["t1"].pc = "idle"
    /\ task["t1"].res = "ok"
    /\ task["t1"].ret.val = <<PkgP2, PkgAB, PkgP1>>
    /\ task["t2"].pc = "await_gateway"
    /\ Len(task["t2"].req) = 3

\* C10: decoding fails on a record line whose final url segment has fewer
\* than three "-"-delimited components: no resolution gets entries out of a
\* lock file that holds such a line.
C10_ShortSegmentRejected ==
    \A t \in Tasks :
        task[t].pc = "await_gateway"
        => \A k \in 1..Len(AfterHeader(LockFileOf(t).val)) :
              LET line == AfterHeader(LockFileOf(t).val)[k]
              IN  FinalSegment(line) # <<>> => ~FewerThanThree(line)

(***************************************************************************)
(* ConstructSpec: EnvSpec objects are constructed from every combination   *)
(* of the constructor's arguments.                                         *)
(***************************************************************************)
ConstructInit ==
    /\ task = [t \in Tasks |-> IdleTask]
    /\ calls = [e \in Envs |-> [solve |-> 0, gateway |-> 0, read |-> 0]]
    /\ cache_dir = [f \in CacheFileNames |-> 0]
    /\ inode = [k \in Inodes |-> <<>>]
    /\ prefix = [installed |-> None, python |-> FALSE, pip |-> None]
    /\ package_records_cache = [e \in Envs |-> None]
    /\ hashed = [e \in Envs |-> NotHashed]
    /\ spec = [e \in Envs |-> NoSpec]
    /\ repo = {PkgP1, PkgAB}
    /\ envfile \in {f \in EnvFiles : Len(f.dependencies) = 1}
    /\ pinfile_cached = None
    /\ pinfile = None
    /\ within = [e \in Envs |-> FALSE]
    /\ inst = [t \in Tasks |-> IF t = "t1" THEN "e1" ELSE "e2"]

\* EnvSpec(**args) is called for instance e: the dataclass sets the fields
\* and runs __post_init__
Construct(e, args) ==
    /\ spec[e] = NoSpec
    /\ spec' = [spec EXCEPT ![e] = EnvSpecPostInit(args)]
    /\ UNCHANGED <<repo, envfile, pinfile_cached, pinfile, within, inst, hashed,
                   cachedir, prefix, package_records_cache, task, calls>>

ConstructNext == \E e \in Envs, args \in EnvSpecArgs : Construct(e, args)

ConstructSpec == ConstructInit /\ [][ConstructNext]_vars

(***************************************************************************)
(* Properties of EnvSpec.                                                  *)
(***************************************************************************)
\* exactly one of the three identity arguments is set
ExactlyOneSet(args) ==
    \E f \in {"envfile", "name", "directory"} :
        /\ args[f] # None
        /\ \A g \in {"envfile", "name", "directory"} \ {f} : args[g] = None

\* the construction of the spec of e was tried
Constructed(e) == spec[e].error # "unconstructed"

\* C11: the construction of an EnvSpec succeeds if and only if exactly one of
\* envfile, name and directory is set; every other combination of the three
\* raises the configuration error (WorkflowError).
C11_ExactlyOneIdentity ==
    \A e \in Envs :
        Constructed(e)
        => /\ spec[e].error = "none" <=> ExactlyOneSet(spec[e].args)
           /\ ~ExactlyOneSet(spec[e].args) => spec[e].error = "WorkflowError"

\* C11 witness: one spec constructed from a name alone, and one construction
\* with a name and a directory refused
C11_Witness ==
    /\ spec["e1"].error = "none"
    /\ spec["e1"].name # None
    /\ spec["e1"].args.envfile = None
    /\ spec["e2"].error = "WorkflowError"
    /\ spec["e2"].args.name # None
    /\ spec["e2"].args.directory # None

\* C12: in every EnvSpec whose construction succeeded, whatever the arguments
\* were, pinfile is set if and only if envfile is set.
C12_PinfileIffEnvfile ==
    \A e \in Envs :
        spec[e].error = "none"
        => (spec[e].pinfile # None <=> spec[e].envfile # None)

(***************************************************************************)
(* Properties of deploy.                                                   *)
(***************************************************************************)
\* C13: when the environment file declares pip dependencies and
\* <prefix>/bin/python does not exist after install has returned, deploy ends
\* with the error about the missing python, and the secondary installer is
\* not run: uv pip install runs only with <prefix>/bin/python there.
C13_MissingPythonFails ==
    /\ [][\A t \in Tasks :
            ( /\ task[t].pc = "await_install"
              /\ task'[t].pc # "await_install"
              /\ task'[t].res \notin {"InstallError", "Abort"}
              /\ pypi_specs(envfile) # <<>>
              /\ ~prefix'.python )
            => /\ task'[t].pc = "idle"
               /\ task'[t].res = "NoPythonError"
               /\ prefix'.pip = prefix.pip]_vars
    /\ [](\A t \in Tasks : task[t].pc = "uv_pip" => prefix.python)

\* C13 witness: deploy of an environment with a pip dependency and no python
\* package has installed its records and ended with the error, and no pip
\* package was ever installed
C13_Witness ==
    /\ task["t1"].op = "deploy"
    /\ task["t1"].pc = "idle"
    /\ task["t1"].res = "NoPythonError"
    /\ task["t1"].at = "await_install"
    /\ prefix.installed = Some(<<PkgAB>>)
    /\ ~prefix.python
    /\ prefix.pip = None

(***************************************************************************)
(* Env.record_hash, and HashSpec: the host asks instances for their hash   *)
(* input before, between and after the operations of an instance.          *)
(***************************************************************************)
\* calls of record_hash on one instance
MaxHashes == 2

\* json.dumps of the elements of a list, already dumped: separated by ", "
DumpList(dumped) == JoinWith(dumped, ", ")

\* json.dumps of a string, of a string given as characters, and of a
\* dependency entry
DumpStr(s) == <<"\"", s, "\"">>
DumpChars(s) == <<"\"">> \o s \o <<"\"">>
DumpDependency(d) ==
    IF d.kind = "dict"
    THEN <<"{">> \o DumpStr("pip") \o <<":", " ", "[">>
         \o DumpList([i \in 1..Len(d.pip) |-> DumpChars(d.pip[i])]) \o <<"]", "}">>
    ELSE DumpChars(d.val)

\* json.dumps(self.envfile_content, sort_keys=True): the keys of the document
\* in sorted order
json_dumps(content) ==
    <<"{">> \o DumpStr("channels") \o <<":", " ", "[">>
    \o DumpList([i \in 1..Len(content.channels) |-> DumpStr(content.channels[i])])
    \o <<"]", ", ">>
    \o DumpStr("dependencies") \o <<":", " ", "[">>
    \o DumpList([i \in 1..Len(content.dependencies) |->
                    DumpDependency(content.dependencies[i])])
    \o <<"]", "}">>

\* the urls of the records an instance has memoized
RECURSIVE RecordUrls(_)
RecordUrls(records) ==
    IF records = <<>> THEN <<>> ELSE Head(records).url \o RecordUrls(Tail(records))

\* (mutant of record_hash: the memoized records are fed to the hash as well)
record_hash_with_records(e) ==
    IF spec[e].envfile # None
    THEN json_dumps(envfile) \o RecordUrls(package_records_cache[e].val)
    ELSE IF spec[e].directory # None THEN spec[e].directory.val
    ELSE spec[e].name.val

\* the bytes record_hash of instance e gives to hash_object.update
record_hash(e) ==
    IF spec[e].envfile # None THEN json_dumps(envfile)
    ELSE IF spec[e].directory # None THEN spec[e].directory.val
    ELSE spec[e].name.val

\* the host calls record_hash on instance e; cold notes whether the first
\* call came before any resolution and with no lock file on disk
RecordHash(e) ==
    /\ Quiet
    /\ hashed[e].n < MaxHashes
    /\ hashed' = [hashed EXCEPT ![e] =
                     [n     |-> hashed[e].n + 1,
                      bytes |-> record_hash(e),
                      cold  |-> IF hashed[e].n = 0
                                THEN /\ package_records_cache[e] = None
                                     /\ pinfile = None
                                     /\ pinfile_cached = None
                                ELSE hashed[e].cold]]
    /\ UNCHANGED <<repo, envfile, pinfile_cached, pinfile, within, inst, spec,
                   cachedir, prefix, package_records_cache, task, calls>>

\* specs that name an existing environment
NamedSpecs ==
    { EnvSpecPostInit([envfile |-> None, directory |-> None,
                       name |-> Some(<<"e", ".", "y">>), pinfile |-> None]),
      EnvSpecPostInit([envfile |-> None, directory |-> Some(<<"/", "d">>),
                       name |-> None, pinfile |-> None]) }

\* e1 is an instance of an environment file, e2 one of a named environment
\* or of an environment directory
HashInit ==
    /\ task = [t \in Tasks |-> IdleTask]
    /\ calls = [e \in Envs |-> [solve |-> 0, gateway |-> 0, read |-> 0]]
    /\ cache_dir = [f \in CacheFileNames |-> 0]
    /\ inode = [k \in Inodes |-> <<>>]
    /\ prefix = [installed |-> None, python |-> FALSE, pip |-> None]
    /\ package_records_cache = [e \in Envs |-> None]
    /\ hashed = [e \in Envs |-> NotHashed]
    /\ spec \in {[e \in Envs |-> IF e = "e1" THEN FileSpec ELSE ns] :
                    ns \in NamedSpecs}
    /\ repo = {PkgP1, PkgAB}
    /\ envfile \in {f \in EnvFiles : conda_specs(f) = <<PythonName>>
                                     /\ pypi_specs(f) # <<>>}
    /\ pinfile_cached = None
    /\ pinfile = None
    /\ within = [e \in Envs |-> FALSE]
    /\ inst = [t \in Tasks |-> "e1"]

HashNext ==
    \/ \E o \in Ops : Call("t1", o)
    \/ ResolveSteps("t1")
    \/ LockFileChanges
    \/ \E e \in Envs : RecordHash(e)

HashSpec == HashInit /\ [][HashNext]_vars

\* C14: the bytes record_hash feeds to the hash are those of the identity
\* field of the spec alone (the environment file's content dumped with sorted
\* keys, or the raw name, or the raw directory): with the environment file
\* unchanged, every call gives the bytes of the calls before it, whatever was
\* resolved, pinned, cached or deployed in between and whatever lock file is
\* on disk.
C14_HashInputStable ==
    /\ [][\A e \in Envs :
            (hashed[e].n > 0 /\ hashed'[e] # hashed[e])
            => hashed'[e].bytes = hashed[e].bytes]_vars
    /\ [](\A e \in Envs :
            hashed[e].n > 0
            => hashed[e].bytes =
                  IF spec[e].args.envfile # None THEN json_dumps(envfile)
                  ELSE IF spec[e].args.directory # None
                  THEN spec[e].args.directory.val
                  ELSE spec[e].args.name.val)

\* C14 witness: the instance was hashed before anything was resolved and with
\* no lock file, and again after its records were memoized by three
\* operations, the last a deploy, with a lock file on disk; the instance of a
\* named environment or directory was hashed twice as well
C14_Witness ==
    /\ hashed["e1"].n = 2
    /\ hashed["e1"].cold
    /\ package_records_cache["e1"] # None
    /\ package_records_cache["e1"].val # <<>>
    /\ pinfile # None
    /\ task["t1"].n = 3
    /\ task["t1"].op = "deploy"
    /\ task["t1"].res = "ok"
    /\ hashed["e2"].n = 2

(***************************************************************************)
(* PinCrashSpec: as CodecSpec, and an operation may be cut short at any of *)
(* its steps (the process crashes or the caller cancels).                  *)
(***************************************************************************)
\* the instance of t1 holds a resolved list of records, the instance of t2
\* is fresh, and no lock file is on disk yet
PinCrashInit ==
    /\ task = [t \in Tasks |-> IdleTask]
    /\ calls = [e \in Envs |-> [solve |-> 0, gateway |-> 0, read |-> 0]]
    /\ cache_dir = [f \in CacheFileNames |-> 0]
    /\ inode = [k \in Inodes |-> <<>>]
    /\ prefix = [installed |-> None, python |-> FALSE, pip |-> None]
    /\ spec = [e \in Envs |-> FileSpec]
    /\ hashed = [e \in Envs |-> NotHashed]
    /\ package_records_cache \in
          {[e \in Envs |-> IF e = "e1" THEN Some(rs) ELSE None] :
              rs \in SeqsUpTo({PkgP1, PkgAB}, MaxRecords)}
    /\ repo = {PkgP1, PkgP2, PkgAB}
    /\ envfile \in {f \in EnvFiles : Len(f.dependencies) = 1}
    /\ pinfile_cached = None
    /\ pinfile = None
    /\ within = [e \in Envs |-> FALSE]
    /\ inst = [t \in Tasks |-> IF t = "t1" THEN "e1" ELSE "e2"]

PinCrashNext == CodecNext \/ \E t \in Turn : Abort(t)

PinCrashSpec == PinCrashInit /\ [][PinCrashNext]_vars

\* the last operation of t was a pin that was cut short after it had written
\* the header and before it had written the last of its records' lines
PinCutShort(t) ==
    /\ task[t].op = "pin"
    /\ task[t].pc = "idle"
    /\ task[t].res = "Abort"
    /\ task[t].at = "pin_write"
    /\ task[t].idx >= 2
    /\ task[t].idx <= Len(task[t].ret.val) + 1

\* C15: after pin was cut short between the header and the last url line, a
\* resolution by a fresh instance rejects the truncated lock file and calls
\* the solver; it neither queries the gateway with the entries of the
\* truncated file nor returns their records.
C15_TruncatedLockFileRejected ==
    \A t \in Tasks :
        PinCutShort(t)
        => \A u \in Tasks \ {t} :
              /\ task[u].pc # "await_gateway"
              /\ ~(task[u].pc = "resolved" /\ task[u].how = "gateway")

(***************************************************************************)
(* DecodeSpec: a fresh instance resolves its records with a lock file on   *)
(* disk that some other tool or a user has written.                        *)
(***************************************************************************)
\* lines of such a lock file: the header, a blank line, a line of blanks, a
\* url with surrounding blanks and a checksum, and a url of a package whose
\* name has three components
DecodeLines ==
    { EXPLICIT,
      <<>>,
      <<" ">>,
      <<" ">> \o PkgAB.url \o <<"#", "m", " ">>,
      ChannelUrl(<<"a", "-", "b", "-", "c", "-", "1", "-", "0">>) }

DecodeInit ==
    /\ task = [t \in Tasks |-> IdleTask]
    /\ calls = [e \in Envs |-> [solve |-> 0, gateway |-> 0, read |-> 0]]
    /\ cache_dir = [f \in CacheFileNames |-> 0]
    /\ inode = [k \in Inodes |-> <<>>]
    /\ prefix = [installed |-> None, python |-> FALSE, pip |-> None]
    /\ spec = [e \in Envs |-> FileSpec]
    /\ hashed = [e \in Envs |-> NotHashed]
    /\ package_records_cache = [e \in Envs |-> None]
    /\ repo = {PkgP1, PkgP2, PkgAB}
    /\ envfile \in {f \in EnvFiles : conda_specs(f) = <<PythonName>>
                                     /\ pypi_specs(f) = <<>>}
    /\ pinfile_cached = None
    /\ pinfile \in {None} \cup {Some(ls) : ls \in SeqsUpTo(DecodeLines, MaxRecords)}
    /\ within = [e \in Envs |-> FALSE]
    /\ inst = [t \in Tasks |-> IF t = "t1" THEN "e1" ELSE "e2"]

DecodeNext ==
    \E t \in Tasks :
        \/ Call(t, "_package_records")
        \/ PackageRecordsEnter(t)
        \/ GatewayReturn(t)
        \/ SolveReturn(t)
        \/ PackageRecordsReturn(t)

DecodeSpec == DecodeInit /\ [][DecodeNext]_vars

(***************************************************************************)
(* Properties of the decoder.                                              *)
(***************************************************************************)
\* a line with nothing but blanks on it
Blank(line) == \A k \in 1..Len(line) : line[k] \in Whitespace

\* the lines of q that are not blank, in the order of q
NonBlank(q) == SelectSeq(q, LAMBDA line : ~Blank(line))

\* the last "/"-delimited segment of the path of the url on a line
LastSegment(line) ==
    LET segments == Split(urlparse(Strip(line)).path, "/")
    IN  segments[Len(segments)]

\* C16: the decoder discards the lines up to and including the header and
\* yields one entry per non-blank line after it, in the order of the file;
\* a blank line after the header yields no entry.
C16_OneEntryPerNonBlankLine ==
    \A t \in Tasks :
        task[t].pc = "await_gateway"
        => LET lines == NonBlank(AfterHeader(LockFileOf(t).val))
           IN  /\ Len(task[t].req) = Len(lines)
               /\ \A i \in 1..Len(lines) :
                     task[t].req[i].url = urlparse(Strip(lines[i])).scheme
                                          \o <<":", "/", "/">>
                                          \o urlparse(Strip(lines[i])).netloc
                                          \o urlparse(Strip(lines[i])).path

\* C17: for a line after the header whose final url path segment has at
\* least three "-"-delimited components, the name of the entry is the segment
\* without its last two components, the others joined with "-" again,
\* however many they are.
C17_NameDropsLastTwoComponents ==
    \A t \in Tasks :
        task[t].pc = "await_gateway"
        => LET lines == AfterHeader(LockFileOf(t).val)
           IN  \A k \in 1..Len(lines) :
                  LET components == Split(LastSegment(lines[k]), "-")
                      n          == Len(components)
                  IN  n >= 3 =>
                         /\ k <= Len(task[t].req)
                         /\ task[t].req[k].name =
                               JoinWith([j \in 1..(n - 2) |-> components[j]], "-")

\* C17 witness: the decoder gave the names a-b-c and a-b for the lines of
\* a-b-c-1-0 and a-b-1-0
C17_Witness ==
    /\ task["t2"].pc = "await_gateway"
    /\ Len(task["t2"].req) = 2
    /\ task["t2"].req[1].name = <<"a", "-", "b", "-", "c">>
    /\ task["t2"].req[2].name = <<"a", "-", "b">>

\* C18: in a deploy run the install service is called only after the
\* resolution has returned the memoized records; the secondary installer is
\* called only after install has returned without error in that run, and
\* only with a non-empty pip list in the environment file; nothing else
\* installs pip packages.
C18_DeployOrder ==
    /\ [][\A t \in Tasks :
            /\ (task'[t].pc = "await_install" /\ task[t].pc # "await_install")
               => /\ task[t].pc = "resolved"
                  /\ task[t].op = "deploy"
                  /\ package_records_cache[inst[t]] # None
                  /\ task'[t].ret = package_records_cache[inst[t]]
            /\ (task'[t].pc = "uv_pip" /\ task[t].pc # "uv_pip")
               => /\ task[t].pc = "await_install"
                  /\ prefix'.installed = task[t].ret
                  /\ pypi_specs(envfile) # <<>>]_vars
    /\ [][prefix'.pip # prefix.pip
            => \E t \in Tasks : task[t].pc = "uv_pip" /\ task[t].op = "deploy"]_vars
    /\ [](\A t \in Tasks :
            task[t].pc \in {"await_install", "uv_pip"}
            => /\ task[t].op = "deploy"
               /\ task[t].ret = package_records_cache[inst[t]]
               /\ task[t].ret # None)

\* C18 witness: a deploy resolved its records from the lock file, installed
\* them and then the pip package, and returned
C18_Witness ==
    /\ task["t1"].op = "deploy"
    /\ task["t1"].pc = "idle"
    /\ task["t1"].res = "ok"
    /\ task["t1"].at = "uv_pip"
    /\ task["t1"].how = "gateway"
    /\ prefix.installed = task["t1"].ret
    /\ prefix.pip = Some(<<<<"x", "1">>>>)

(***************************************************************************)
(* OverlapSpec: two coroutines call _package_records on one Env instance;  *)
(* each may start while the other is suspended at its await.  No external  *)
(* call fails.                                                             *)
(***************************************************************************)
OverlapNext ==
    \E t \in Tasks :
        \/ Call(t, "_package_records")
        \/ PackageRecordsEnter(t)
        \/ GatewayReturn(t)
        \/ SolveReturn(t)
        \/ PackageRecordsReturn(t)

OverlapSpec == ResolveInit /\ [][OverlapNext]_vars

\* C19: when _package_records calls on one instance overlap at their awaits
\* and no external call fails, the solver or the gateway is called at most
\* once for the instance, and the calls return the same list.
C19_ResolvedOnceWhenOverlapping ==
    /\ \A e \in Envs : calls[e].solve + calls[e].gateway <= 1
    /\ \A t, u \in Tasks :
          (inst[t] = inst[u] /\ task[t].how # "none" /\ task[u].how # "none")
          => task[t].ret = task[u].ret

\* C20: when the solver or the gateway raises, nothing is memoized and the
\* operation ends with the error without calling the solver or the gateway
\* again; a later call on the instance finds nothing memoized and looks for
\* the lock file and resolves again.
C20_FailureNotMemoized ==
    /\ [][\A t \in Tasks :
            ( /\ task[t].pc \in {"await_gateway", "await_solve"}
              /\ task'[t].pc = "idle"
              /\ task'[t].res = "ResolutionError" )
            => /\ package_records_cache'[inst[t]] = None
               /\ calls' = calls]_vars
    /\ [][\A t \in Tasks :
            ( /\ task[t].pc = "resolve"
              /\ package_records_cache[inst[t]] = None
              /\ task'[t].pc \notin {"resolve", "idle"} )
            => /\ task'[t].pc \in {"await_gateway", "await_solve"}
               /\ calls'[inst[t]].solve + calls'[inst[t]].gateway
                     = calls[inst[t]].solve + calls[inst[t]].gateway + 1]_vars
    /\ [](\A t \in Tasks :
            (task[t].pc = "idle" /\ task[t].res = "ResolutionError")
            => package_records_cache[inst[t]] = None)

\* C20 witness: the first call went to the solver and left nothing memoized;
\* the second call, with a lock file on disk by then, looked again, queried
\* the gateway, which raised, and ended with the error and nothing memoized
C20_Witness ==
    /\ task["t1"].n = 2
    /\ task["t1"].pc = "idle"
    /\ task["t1"].res = "ResolutionError"
    /\ task["t1"].at = "await_gateway"
    /\ calls["e1"] = [solve |-> 1, gateway |-> 1, read |-> 1]
    /\ package_records_cache["e1"] = None

(***************************************************************************)
(* WithinSpec: the operations of one Env instance, one after the other;    *)
(* the instance may have a parent environment (self.within is set).        *)
(***************************************************************************)
WithinInit ==
    /\ task = [t \in Tasks |-> IdleTask]
    /\ calls = [e \in Envs |-> [solve |-> 0, gateway |-> 0, read |-> 0]]
    /\ cache_dir = [f \in CacheFileNames |-> 0]
    /\ inode = [k \in Inodes |-> <<>>]
    /\ prefix = [installed |-> None, python |-> FALSE, pip |-> None]
    /\ spec = [e \in Envs |-> FileSpec]
    /\ hashed = [e \in Envs |-> NotHashed]
    /\ package_records_cache = [e \in Envs |-> None]
    /\ repo = {PkgP1, PkgAB}
    /\ envfile \in ResolveEnvFiles
    /\ pinfile_cached = None
    /\ pinfile \in {None} \cup {Some(f) : f \in UserLockFiles}
    /\ within \in [Envs -> BOOLEAN]
    /\ inst = [t \in Tasks |-> "e1"]

WithinNext ==
    \/ \E o \in Ops : Call("t1", o)
    \/ ResolveSteps("t1")
    \/ RunMethodReturn("t1")

WithinSpec == WithinInit /\ [][WithinNext]_vars

\* task t is in a deploy, or its last operation was one
InDeploy(t) == task[t].op = "deploy"

\* C21: deploy of an instance with a parent environment is run_method and
\* nothing else: it resolves nothing locally (no solver or gateway call, no
\* lock file read, nothing memoized) and calls neither install nor the
\* secondary installer locally; deploy of an instance without a parent
\* environment never calls run_method.
C21_DeployDelegatesWithin ==
    /\ [][\A t \in Tasks :
            (InDeploy(t) /\ within[inst[t]] /\ task'[t] # task[t] /\ InDeploy(t)')
            => /\ calls' = calls
               /\ package_records_cache' = package_records_cache]_vars
    /\ [](\A t \in Tasks :
            InDeploy(t)
            => IF within[inst[t]]
               THEN /\ task[t].pc \in {"run_method", "idle"}
                    /\ task[t].at \in {"run_method", "idle"}
                    /\ task[t].how = "none"
               ELSE /\ task[t].pc # "run_method"
                    /\ task[t].at # "run_method")

\* C21 witness: deploy of an instance with a parent environment returned
\* from run_method with the environment deployed and nothing resolved by the
\* instance itself
C21_Witness ==
    /\ InDeploy("t1")
    /\ within["e1"]
    /\ task["t1"].pc = "idle"
    /\ task["t1"].res = "ok"
    /\ task["t1"].at = "run_method"
    /\ prefix.installed # None
    /\ calls["e1"] = [solve |-> 0, gateway |-> 0, read |-> 0]
    /\ package_records_cache["e1"] = None

====
